---------------------------- MODULE Spec2Model ----------------------------
(***************************************************************************)
(* Model of github.com/soniakeys/accsum (src/acc.go, src/sum.go,           *)
(* src/accsum.go): error-free transformations and accurate summation.      *)
(*                                                                         *)
(* Floating point.  The Go code works on float64 (P = 53, EMax = 1023).    *)
(* The model keeps the IEEE 754 binary format and round-to-nearest-even    *)
(* but scales the format down to precision P and exponent range            *)
(* 1-EMax .. EMax, so that TLC can enumerate it.  A finite float is the    *)
(* integer number of units eta = 2^(2-EMax-P) it holds; every integer n    *)
(* with |n| < 2^P is a float (subnormals and the first binade), above      *)
(* that the floats are m * 2^e with 2^(P-1) <= m < 2^P.  +Inf, -Inf and    *)
(* NaN are the sentinels PosInf, NegInf and NaN.  The sign of zero is not  *)
(* tracked.  Operations are not fused (the amd64 build).                   *)
(***************************************************************************)
EXTENDS Integers, Sequences, FiniteSets

VARIABLES
    op,     \* the call that has been made, "init" before it
    a, b,   \* scalar arguments
    x, y,   \* scalar results (x, y) of an error-free transformation
    p,      \* the caller's slice p (or x of a dot product), as the call leaves it
    p0,     \* the values p held before the call
    yv,     \* the caller's second slice (y of a dot product), as the call leaves it
    yv0,    \* the values yv held before the call
    K,      \* the argument K
    f,      \* the reduction function handed to Cond, CondSum, CondDot
    res,    \* the returned value
    err,    \* NoErr, or the run-time panic that ended the call
    pc,     \* where a running transform3 stands: "enter", "loop" or "done"
    frame,  \* the locals of transform3 (of PrecSum: mu): rho, mu, sigma, t,
            \* tau1, tau2
    sign,   \* the bool AccSignBit returns
    resK,   \* the slice AccSumK returns
    eb      \* the error bound Dot2Err returns

\* the position and locals of transform3, and the results that are no float64
locals == <<pc, frame>>
others == <<sign, resK, eb>>

vars == <<op, a, b, x, y, p, p0, yv, yv0, K, f, res, err, locals, others>>

---------------------------------------------------------------------------
(* The scaled format.                                                      *)

\* precision (53 in the source) and largest exponent (1023 in the source); the
\* exponent range is the widest for which every value the model computes with
\* stays within TLC's 32-bit integers
P == 6
EMax == 18 - P

\* bias: 1.0 is 2^Bias units of eta
Bias == EMax + P - 2

eps == 2^(Bias - P)
invEps == 2^(Bias + P)
u == 2^(Bias - P - 1)
eta == 1
minPos == 2^(P - 1)
One == 2^Bias

PosInf == 2^(2 * EMax + P - 1)
NegInf == -PosInf
NaN == PosInf + 1
MaxFloat == PosInf - 2^(2 * EMax - 1)

IsNaN(v) == v = NaN
IsInf(v) == v = PosInf \/ v = NegInf
IsFinite(v) == ~IsNaN(v) /\ ~IsInf(v)

Max(i, j) == IF i >= j THEN i ELSE j
Min(i, j) == IF i <= j THEN i ELSE j
AbsInt(i) == IF i < 0 THEN -i ELSE i
SignOf(v) == IF v < 0 THEN -1 ELSE 1

\* number of bits of a natural number
RECURSIVE BitLen(_)
BitLen(n) == IF n = 0 THEN 0 ELSE 1 + BitLen(n \div 2)

\* number of trailing zero bits of a positive natural number
RECURSIVE TrailZ(_)
TrailZ(n) == IF n % 2 = 1 THEN 0 ELSE 1 + TrailZ(n \div 2)

\* the odd part and the exponent of a non-zero finite float: v = Mant(v) * 2^Expo(v)
Expo(v) == TrailZ(AbsInt(v))
Mant(v) == AbsInt(v) \div 2^Expo(v)

\* exponent of the unit in the last place of a finite float, in units of eta
UlpExp(v) == Max(0, BitLen(AbsInt(v)) - P)

\* m / 2^sh (m >= 0, sh >= 1) rounded to the nearest integer, ties to even
RoundQuot(q, r, d) ==
    IF 2 * r > d \/ (2 * r = d /\ q % 2 = 1) THEN q + 1 ELSE q
RoundShift(m, sh) == RoundQuot(m \div 2^sh, m % 2^sh, 2^sh)

\* the float nearest to m * 2^k units (m >= 0), ties to even, overflow to +Inf
\* with ue the exponent of the last place of the result
ToInf(v) == IF v >= PosInf THEN PosInf ELSE v
RoundAt(m, k, ue) ==
    IF ue >= 2 * EMax THEN PosInf
    ELSE ToInf(IF k >= ue THEN m * 2^k ELSE RoundShift(m, ue - k) * 2^ue)
RoundScaled(m, k) ==
    IF m = 0 THEN 0 ELSE RoundAt(m, k, Max(0, BitLen(m) + k - P))

\* the float nearest to the integer i
RoundInt(i) == SignOf(i) * RoundScaled(AbsInt(i), 0)

IsFloat(v) == IsNaN(v) \/ IsInf(v) \/ RoundInt(v) = v

NegF(v) == IF IsNaN(v) THEN NaN ELSE -v
AbsF(v) == IF IsNaN(v) THEN NaN ELSE AbsInt(v)

\* float64 addition a + b
AddF(v, w) ==
    IF IsNaN(v) \/ IsNaN(w) THEN NaN
    ELSE IF IsInf(v) THEN (IF IsInf(w) /\ v # w THEN NaN ELSE v)
    ELSE IF IsInf(w) THEN w
    ELSE RoundInt(v + w)

\* float64 subtraction a - b
SubF(v, w) == AddF(v, NegF(w))

\* float64 multiplication a * b
MulF(v, w) ==
    IF IsNaN(v) \/ IsNaN(w) THEN NaN
    ELSE IF IsInf(v) \/ IsInf(w)
         THEN (IF v = 0 \/ w = 0 THEN NaN ELSE SignOf(v) * SignOf(w) * PosInf)
    ELSE IF v = 0 \/ w = 0 THEN 0
    ELSE SignOf(v) * SignOf(w)
            * RoundScaled(Mant(v) * Mant(w), Expo(v) + Expo(w) - Bias)

\* guard bits of the quotient
DivBits == 2 * P + 2

\* the quotient n / d with one more bit that tells of a remainder
Sticky(n, d) == 2 * (n \div d) + (IF n % d = 0 THEN 0 ELSE 1)

\* float64 division a / b
DivF(v, w) ==
    IF IsNaN(v) \/ IsNaN(w) THEN NaN
    ELSE IF IsInf(v) THEN (IF IsInf(w) THEN NaN ELSE SignOf(v) * SignOf(w) * PosInf)
    ELSE IF IsInf(w) THEN 0
    ELSE IF w = 0 THEN (IF v = 0 THEN NaN ELSE SignOf(v) * PosInf)
    ELSE IF v = 0 THEN 0
    ELSE SignOf(v) * SignOf(w)
            * RoundScaled(Sticky(Mant(v) * 2^DivBits, Mant(w)),
                          Expo(v) - Expo(w) - DivBits - 1 + Bias)

\* float64 comparisons: false when an operand is NaN
EqF(v, w) == ~IsNaN(v) /\ ~IsNaN(w) /\ v = w
GtF(v, w) == ~IsNaN(v) /\ ~IsNaN(w) /\ v > w
GeF(v, w) == ~IsNaN(v) /\ ~IsNaN(w) /\ v >= w
LeF(v, w) == ~IsNaN(v) /\ ~IsNaN(w) /\ v <= w

\* math.Log2 of a power of two
Log2F(v) == BitLen(v) - 1 - Bias

\* float64(n) for an int n >= 0
FromInt(n) == RoundScaled(n, Bias)

\* every finite float of the format, and those that are not negative
NonNegFloats ==
    (0 .. 2^P - 1) \cup
    { m * 2^e : m \in 2^(P - 1) .. 2^P - 1, e \in 1 .. 2 * EMax - 1 }
Floats == NonNegFloats \cup { -v : v \in NonNegFloats }

---------------------------------------------------------------------------
(* Error-free transformations, src/acc.go.                                 *)

\* FastTwoSum with x already computed
FastTwoSumX(v, w, xx) == <<xx, AddF(SubF(v, xx), w)>>

\* mutant: a and b exchanged in the error term
FastTwoSumFromB(v, w) == FastTwoSumX(w, v, AddF(v, w))
FastTwoSum(v, w) == FastTwoSumX(v, w, AddF(v, w))

\* TwoSum with x, and with x and z, already computed
TwoSumZ(v, w, xx, z) == <<xx, AddF(SubF(v, SubF(xx, z)), SubF(w, z))>>
TwoSumX(v, w, xx) == TwoSumZ(v, w, xx, SubF(xx, v))

\* mutant: Dekker's three operations in place of Knuth's six
TwoSumDekker(v, w) == FastTwoSum(v, w)
TwoSum(v, w) == TwoSumX(v, w, AddF(v, w))

\* the number of low-order bits split clears: 27 of 53
SplitBits == (P + 1) \div 2
splitFactor == AddF(2^(Bias + SplitBits), One)

\* split with c, and with x, already computed
splitX(v, xx) == <<xx, SubF(v, xx)>>
splitC(v, c) == splitX(v, SubF(c, SubF(c, v)))

\* mutant: the factor without its + 1
splitPowerOnly(v) == splitC(v, MulF(2^(Bias + SplitBits), v))
split(v) == splitC(v, MulF(splitFactor, v))

\* TwoProduct with x and the two splits already computed
TwoProductS(xx, sa, sb) ==
    <<xx, SubF(MulF(sa[2], sb[2]),
               SubF(SubF(SubF(xx, MulF(sa[1], sb[1])), MulF(sa[2], sb[1])),
                    MulF(sa[1], sb[2])))>>
TwoProductNoCrossS(xx, sa, sb) ==
    <<xx, SubF(MulF(sa[2], sb[2]),
               SubF(SubF(xx, MulF(sa[1], sb[1])), MulF(sa[2], sb[1])))>>

\* mutant: the partial product a1 * b2 left out
TwoProductNoCross(v, w) == TwoProductNoCrossS(MulF(v, w), split(v), split(w))
TwoProduct(v, w) == TwoProductS(MulF(v, w), split(v), split(w))

---------------------------------------------------------------------------
(* Summation, src/acc.go and src/sum.go.  A function that writes to its    *)
(* slice returns the slice as it leaves it, in field p.                    *)

\* PrecSum maximum length of argument p: 1<<26 - 2, 26 being P div 2
nMax == 2^(P \div 2) - 2

\* how a call ends: normally, with a run-time panic, or never
NoErr == <<>>
Panic(msg) == <<msg>>
NoReturn == <<"does not return">>
\* panic(fmt.Sprintf("len(p) = %d exceeds limit, %d", len(p), nMax))
LimitPanic(n) == <<"len(p) exceeds limit", n, nMax>>

\* Sum: the simple sequential sum, from s over q[i..]
RECURSIVE SumFrom(_, _, _)
SumFrom(s, q, i) == IF i > Len(q) THEN s ELSE SumFrom(AddF(s, q[i]), q, i + 1)
Sum(q) == SumFrom(0, q, 1)

\* Sum2: s is the running sum, e the sum of the errors, i the next element;
\* Sum2Step takes t = TwoSum(s, x)
RECURSIVE Sum2From(_, _, _, _)
Sum2Step(t, e, q, i) == Sum2From(t[1], AddF(e, t[2]), q, i + 1)
Sum2From(s, e, q, i) ==
    IF i > Len(q) THEN AddF(s, e) ELSE Sum2Step(TwoSum(s, q[i]), e, q, i)
Sum2(q) == IF Len(q) = 0 THEN 0 ELSE Sum2From(q[1], 0, q, 2)

\* vecSum: the loop at element i with the running sum s; vecSumStep takes
\* t = TwoSum(s, x)
RECURSIVE vecSumFrom(_, _, _)
vecSumStep(t, q, i) == vecSumFrom(t[1], [q EXCEPT ![i - 1] = t[2]], i + 1)
vecSumFrom(s, q, i) ==
    IF i > Len(q) THEN [q EXCEPT ![Len(q)] = s]
    ELSE vecSumStep(TwoSum(s, q[i]), q, i)
vecSum(q) == IF Len(q) < 2 THEN q ELSE vecSumFrom(q[1], q, 2)

\* SumK: the loop for K--; K > 0; K--, and the final Sum(p)
RECURSIVE vecSumTimes(_, _)
vecSumTimes(q, k) == IF k <= 0 THEN q ELSE vecSumTimes(vecSum(q), k - 1)
SumKEnd(q) == [r |-> Sum(q), p |-> q, err |-> NoErr]
SumK(q, k) == SumKEnd(vecSumTimes(q, k - 1))

\* SumKVert: one pass for k, qk := range q[from..to] of q[k], s = TwoSum(qk, s);
\* returns the new q and s.  vertStep takes t = TwoSum(qk, s).
RECURSIVE vertPass(_, _, _, _)
vertStep(t, q, k, to) == vertPass([q EXCEPT ![k] = t[1]], t[2], k + 1, to)
vertPass(q, s, k, to) ==
    IF k > to THEN [q |-> q, s |-> s] ELSE vertStep(TwoSum(q[k], s), q, k, to)

\* first loop of SumKVert: for i, s := range p[:len(q)]; o is the inner loop's
\* outcome
RECURSIVE vertFill(_, _, _)
vertFillSet(o, pp, i) == vertFill([o.q EXCEPT ![i] = o.s], pp, i + 1)
vertFill(q, pp, i) ==
    IF i > Len(q) THEN q ELSE vertFillSet(vertPass(q, pp[i], 1, i - 1), pp, i)

\* second loop: for _, alpha := range p[len(q):]
RECURSIVE vertRest(_, _, _, _)
vertRestAdd(o, s, pp, i) == vertRest(o.q, AddF(s, o.s), pp, i + 1)
vertRest(q, s, pp, i) ==
    IF i > Len(pp) THEN [q |-> q, s |-> s]
    ELSE vertRestAdd(vertPass(q, pp[i], 1, Len(q)), s, pp, i)

\* third loop: for j, alpha := range q[:K-2]
RECURSIVE vertTail(_, _, _, _)
vertTailAdd(o, s, j, to) == vertTail(o.q, AddF(s, o.s), j + 1, to)
vertTail(q, s, j, to) ==
    IF j > to THEN [q |-> q, s |-> s]
    ELSE vertTailAdd(vertPass(q, q[j], j + 1, Len(q)), s, j, to)

\* SumKVert from its second loop on, q filled by the first; and its return
\* from the outcome o of the third loop
\* mutant: the passes are made on p itself
vertEndWrites(o, pp, k1) ==
    [r |-> AddF(o.s, o.q[k1 - 1]), p |-> vecSum(pp), err |-> NoErr]
vertEnd(o, pp, k1) == [r |-> AddF(o.s, o.q[k1 - 1]), p |-> pp, err |-> NoErr]
vertAfterRest(o, pp, k1) ==
    IF k1 - 2 < 0
    THEN [r |-> 0, p |-> pp, err |-> Panic("slice bounds out of range")]
    ELSE vertEnd(vertTail(o.q, o.s, 1, k1 - 2), pp, k1)
vertAfterFill(q, pp, k1) == vertAfterRest(vertRest(q, 0, pp, Len(q) + 1), pp, k1)

\* SumKVert with K already limited to len(p)
SumKVertK(pp, k1) ==
    IF k1 - 1 < 0
    THEN [r |-> 0, p |-> pp, err |-> Panic("makeslice: len out of range")]
    ELSE vertAfterFill(vertFill([i \in 1 .. k1 - 1 |-> 0], pp, 1), pp, k1)
SumKVert(pp, k) == SumKVertK(pp, Min(Len(pp), k))

---------------------------------------------------------------------------
(* The extraction engine, src/acc.go.                                      *)

\* nextPowerTwo with q = invEps * p computed
nextPowerTwoQ(v, q) == AbsF(SubF(SubF(q, v), q))
nextPowerTwo(v) == nextPowerTwoQ(v, MulF(invEps, v))

\* (q, p') of extractScalar
extractScalarQ(v, q) == <<q, SubF(v, q)>>
extractScalar(sigma, v) == extractScalarQ(v, SubF(AddF(sigma, v), sigma))

\* extractSlice: the loop at element i with the running tau; extractStep
\* takes e = extractScalar(sigma, pi)
RECURSIVE extractFrom(_, _, _, _)
\* mutant: the high part is stored and the remainder summed
extractStepHigh(e, sigma, q, tau, i) ==
    extractFrom(sigma, [q EXCEPT ![i] = e[1]], AddF(tau, e[2]), i + 1)
\* mutant: the high part is summed and the element left as it was
extractStepKeeps(e, sigma, q, tau, i) ==
    extractFrom(sigma, q, AddF(tau, e[1]), i + 1)
extractStep(e, sigma, q, tau, i) ==
    extractFrom(sigma, [q EXCEPT ![i] = e[2]], AddF(tau, e[1]), i + 1)
extractFrom(sigma, q, tau, i) ==
    IF i > Len(q) THEN [tau |-> tau, p |-> q]
    ELSE extractStep(extractScalar(sigma, q[i]), sigma, q, tau, i)
extractSlice(sigma, q) == extractFrom(sigma, q, 0, 1)

\* the scan for mu of transform3 and PrecSum: "if a := math.Abs(x); x > mu"
RECURSIVE muScan(_, _, _)
muScan(mu, q, i) ==
    IF i > Len(q) THEN mu
    ELSE muScan(IF GtF(q[i], mu) THEN AbsF(q[i]) ELSE mu, q, i + 1)
muOf(q) == muScan(AbsF(q[1]), q, 2)

\* the stopping criteria _PhiSum and _PhiSign
PhiOf(Phi, Ms) == IF Phi = "Sum" THEN MulF(MulF(u, Ms), Ms) ELSE MulF(u, Ms)

\* transform3 returns (t1, t2) and leaves the slice as p; hang: its loop
\* never ends (sigma is NaN, so neither exit test nor t == 0 ever holds and
\* each round repeats the last).
Transformed(t1, t2, q) == [t1 |-> t1, t2 |-> t2, p |-> q, hang |-> FALSE]

RECURSIVE transform3(_, _, _)
RECURSIVE transformLoop(_, _, _, _, _, _)

\* one round of the loop "for t := rho; ; {...}" after tau = extractSlice
\* (e) and tau1 = t + tau
transformTest(e, tau1, t, sigma, phi, PhiV, Phi) ==
    IF GeF(AbsF(tau1), MulF(PhiV, sigma)) \/ LeF(sigma, minPos)
    THEN Transformed(tau1, AddF(SubF(t, tau1), e.tau), e.p)
    ELSE IF EqF(tau1, 0) THEN transform3(e.p, 0, Phi)
    ELSE IF IsNaN(sigma) THEN [t1 |-> tau1, t2 |-> 0, p |-> e.p, hang |-> TRUE]
    ELSE transformLoop(e.p, tau1, MulF(sigma, phi), phi, PhiV, Phi)
transformRound(e, t, sigma, phi, PhiV, Phi) ==
    transformTest(e, AddF(t, e.tau), t, sigma, phi, PhiV, Phi)
transformLoop(q, t, sigma, phi, PhiV, Phi) ==
    transformRound(extractSlice(sigma, q), t, sigma, phi, PhiV, Phi)

\* transform3 once sigma, and before that Ms and mu, are computed
transformSigma(q, rho, Phi, Ms, sigma) ==
    IF IsInf(sigma) THEN Transformed(sigma, sigma, q)
    ELSE transformLoop(q, rho, sigma, MulF(Ms, u), PhiOf(Phi, Ms), Phi)
transformMs(q, rho, Phi, mu, Ms) ==
    transformSigma(q, rho, Phi, Ms, MulF(Ms, nextPowerTwo(mu)))
transformMu(q, rho, Phi, mu) ==
    IF EqF(mu, 0) THEN Transformed(0, 0, q)
    ELSE transformMs(q, rho, Phi, mu, nextPowerTwo(FromInt(Len(q) + 2)))
transform3(q, rho, Phi) ==
    IF Len(q) = 0 THEN Transformed(0, 0, q)
    ELSE transformMu(q, rho, Phi, muOf(q))

transform(q) == transform3(q, 0, "Sum")

\* AccSum after tr = transform(p)
AccSumOf(tr) ==
    IF tr.hang THEN [r |-> 0, p |-> tr.p, err |-> NoReturn]
    ELSE [r |-> AddF(AddF(Sum(tr.p), tr.t2), tr.t1), p |-> tr.p, err |-> NoErr]
AccSum(q) == AccSumOf(transform(q))

\* math.Signbit: the outcomes a build can give.  A NaN carries either sign.
\* A zero tau1 of transform3 is +0: tau starts as +0 and only has high parts
\* sigma + p - sigma added, which are never -0, and t + tau is -0 only when
\* both are.
Signbit(v) == IF IsNaN(v) THEN BOOLEAN ELSE {v < 0}

\* AccSignBit after tr = transform3(p, 0, _PhiSign); rs holds the values it
\* may return
AccSignBitOf(tr) ==
    IF tr.hang THEN [rs |-> {FALSE}, p |-> tr.p, err |-> NoReturn]
    ELSE [rs |-> Signbit(tr.t1), p |-> tr.p, err |-> NoErr]
AccSignBit(q) == AccSignBitOf(transform3(q, 0, "Sign"))

\* transformK after tr = transform3(p, rho, _PhiSum), and once res is summed
transformKRes(tr, sum3) ==
    [res |-> sum3, R |-> SubF(tr.t2, SubF(sum3, tr.t1)), p |-> tr.p, hang |-> FALSE]
transformKOf(tr) ==
    IF tr.hang THEN [res |-> 0, R |-> 0, p |-> tr.p, hang |-> TRUE]
    ELSE transformKRes(tr, AddF(AddF(Sum(tr.p), tr.t2), tr.t1))
transformK(q, r) == transformKOf(transform3(q, r, "Sum"))

\* AccSumK: the loop for k := range res at index k, o the outcome of
\* transformK(p, r)
RECURSIVE accSumKFrom(_, _, _, _)
\* n: the number of transformK passes that were started
accSumKStep(o, out, k) ==
    IF o.hang THEN [r |-> out, p |-> o.p, err |-> NoReturn, n |-> k]
    ELSE IF LeF(o.res, minPos)
    THEN [r |-> [out EXCEPT ![k] = o.res], p |-> o.p, err |-> NoErr, n |-> k]
    ELSE accSumKFrom([out EXCEPT ![k] = o.res], o.p, o.R, k + 1)
accSumKFrom(out, q, r, k) ==
    IF k > Len(out) THEN [r |-> out, p |-> q, err |-> NoErr, n |-> Len(out)]
    ELSE accSumKStep(transformK(q, r), out, k)
AccSumK(q, k) ==
    IF k < 0
    THEN [r |-> <<>>, p |-> q, err |-> Panic("makeslice: len out of range"),
          n |-> 0]
    ELSE accSumKFrom([i \in 1 .. k |-> 0], q, 0, 1)

\* len(sigma): int(math.Ceil((K*Log2(u) - 2) / (Log2(u) + M)) - 1); the
\* operands are small whole numbers, the quotient is taken exactly
CeilDiv(num, den) == (num + den - 1) \div den
sigmaLen(k, Ms) == CeilDiv(2 - k * Log2F(u), -(Log2F(u) + Log2F(Ms))) - 1

\* the loop that fills sigma: for k := 0; ; {...}
RECURSIVE sigmaFill(_, _, _, _)
sigmaFill(sg, sigma0, phi, L) ==
    IF LeF(sigma0, minPos) THEN [sg |-> sg, err |-> NoErr]
    ELSE IF Len(sg) >= L THEN [sg |-> sg, err |-> Panic("index out of range")]
    ELSE IF Len(sg) + 1 = L THEN [sg |-> Append(sg, sigma0), err |-> NoErr]
    ELSE sigmaFill(Append(sg, sigma0), MulF(sigma0, phi), phi, L)

\* for k, sigmak := range sigma: q, pi = extractScalar(sigmak, pi); tau[k] += q
RECURSIVE precExtract(_, _, _, _)
precExtractStep(e, sg, tau, k) ==
    precExtract(sg, [tau EXCEPT ![k] = AddF(tau[k], e[1])], e[2], k + 1)
precExtract(sg, tau, v, k) ==
    IF k > Len(sg) THEN [tau |-> tau, v |-> v]
    ELSE precExtractStep(extractScalar(sg[k], v), sg, tau, k)

\* for _, pi := range p
RECURSIVE precPass(_, _, _, _, _)
precPassAdd(o, sg, sum, q, i) == precPass(sg, o.tau, AddF(sum, o.v), q, i + 1)
precPass(sg, tau, sum, q, i) ==
    IF i > Len(q) THEN [tau |-> tau, sum |-> sum]
    ELSE precPassAdd(precExtract(sg, tau, q[i], 1), sg, sum, q, i)

\* for _, tauk := range tau[1:]: pi, q = FastTwoSum(pi, tauk); e += q
RECURSIVE precFold(_, _, _, _)
precFoldStep(t, e, tau, k) == precFold(t[1], AddF(e, t[2]), tau, k + 1)
precFold(pi, e, tau, k) ==
    IF k > Len(tau) THEN <<pi, e>>
    ELSE precFoldStep(FastTwoSum(pi, tau[k]), e, tau, k)

\* PrecSum's return from t = (pi, e) and sum
precEnd(t, sum, q) == [r |-> AddF(AddF(sum, t[2]), t[1]), p |-> q, err |-> NoErr]
\* PrecSum after the loop over p, whose outcome is o
precAfterPass(o, q) == precEnd(precFold(o.tau[1], 0, o.tau, 2), o.sum, q)
\* PrecSum once sigma is filled (sf)
precWithSigma(sf, q) ==
    IF sf.err # NoErr THEN [r |-> 0, p |-> q, err |-> sf.err]
    ELSE IF Len(sf.sg) = 0 THEN [r |-> Sum(q), p |-> q, err |-> NoErr]
    ELSE precAfterPass(precPass(sf.sg, [j \in 1 .. Len(sf.sg) |-> 0], 0, q, 1), q)
\* PrecSum once len(sigma) is known
precWithLen(q, sigma0, phi, L) ==
    IF L < 0 THEN [r |-> 0, p |-> q, err |-> Panic("makeslice: len out of range")]
    ELSE precWithSigma(sigmaFill(<<>>, sigma0, phi, L), q)
\* PrecSum once Ms, and before that sigma0 and mu, are computed
precWithMs(q, k, sigma0, Ms) ==
    precWithLen(q, sigma0, MulF(Ms, u), sigmaLen(k, Ms))
precWithSigma0(q, k, sigma0) ==
    IF IsInf(sigma0) THEN [r |-> sigma0, p |-> q, err |-> NoErr]
    ELSE precWithMs(q, k, sigma0, nextPowerTwo(FromInt(Len(q) + 2)))
precWithMu(q, k, mu) ==
    IF EqF(mu, 0) THEN [r |-> 0, p |-> q, err |-> NoErr]
    ELSE precWithSigma0(q, k, nextPowerTwo(mu))

\* PrecSum after its switch statement
PrecSumBody(q, k) ==
    precWithMu(q, k, DivF(muOf(q),
                          SubF(One, MulF(MulF(FromInt(Len(q)), 2 * One), eps))))

\* the slice sigma as PrecSum's fill loop leaves it; empty when PrecSum
\* returns or panics before the loop
precSigmasLen(sigma0, phi, L) ==
    IF L < 0 THEN <<>> ELSE sigmaFill(<<>>, sigma0, phi, L).sg
precSigmasMs(k, sigma0, Ms) ==
    IF IsInf(sigma0) THEN <<>>
    ELSE precSigmasLen(sigma0, MulF(Ms, u), sigmaLen(k, Ms))
precSigmasMu(q, k, mu) ==
    IF EqF(mu, 0) THEN <<>>
    ELSE precSigmasMs(k, nextPowerTwo(mu), nextPowerTwo(FromInt(Len(q) + 2)))
precSigmas(q, k) ==
    IF Len(q) = 0 \/ Len(q) > nMax THEN <<>>
    ELSE precSigmasMu(q, k,
             DivF(muOf(q),
                  SubF(One, MulF(MulF(FromInt(Len(q)), 2 * One), eps))))

\* mutant: the limit itself is refused
PrecSumLimitExcluded(q, k) ==
    IF Len(q) = 0 THEN [r |-> 0, p |-> q, err |-> NoErr]
    ELSE IF Len(q) >= nMax THEN [r |-> 0, p |-> q, err |-> LimitPanic(Len(q))]
    ELSE PrecSumBody(q, k)
PrecSum(q, k) ==
    IF Len(q) = 0 THEN [r |-> 0, p |-> q, err |-> NoErr]
    ELSE IF Len(q) > nMax THEN [r |-> 0, p |-> q, err |-> LimitPanic(Len(q))]
    ELSE PrecSumBody(q, k)

---------------------------------------------------------------------------
(* Dot products and condition numbers, src/acc.go, src/sum.go and          *)
(* src/accsum.go.  A heap is a sequence of backing arrays and a slice is    *)
(* the index of its array, so that two slices may or may not share one.    *)

\* Dot: the loop at element i with the running sum s
RECURSIVE DotFrom(_, _, _, _)
DotFrom(s, xs, ys, i) ==
    IF i > Len(xs) THEN [r |-> s, err |-> NoErr]
    ELSE IF i > Len(ys) THEN [r |-> 0, err |-> Panic("index out of range")]
    ELSE DotFrom(AddF(s, MulF(xs[i], ys[i])), xs, ys, i + 1)
Dot(xs, ys) == DotFrom(0, xs, ys, 1)

\* Dot2: the loop at element i with the running p (pp) and s; Dot2Step takes
\* hr = TwoProduct(x[i], y[i]) and Dot2Add also pq = TwoSum(p, h)
RECURSIVE Dot2From(_, _, _, _, _)
Dot2Add(hr, pq, s, xs, ys, i) ==
    Dot2From(pq[1], AddF(s, AddF(pq[2], hr[2])), xs, ys, i + 1)
Dot2Step(hr, pp, s, xs, ys, i) == Dot2Add(hr, TwoSum(pp, hr[1]), s, xs, ys, i)
Dot2From(pp, s, xs, ys, i) ==
    IF i > Len(xs) THEN [r |-> AddF(pp, s), err |-> NoErr]
    ELSE IF i > Len(ys) THEN [r |-> 0, err |-> Panic("index out of range")]
    ELSE Dot2Step(TwoProduct(xs[i], ys[i]), pp, s, xs, ys, i)
Dot2First(ps, xs, ys) == Dot2From(ps[1], ps[2], xs, ys, 2)
Dot2(xs, ys) ==
    IF Len(xs) = 0 THEN [r |-> 0, err |-> NoErr]
    ELSE IF Len(ys) = 0 THEN [r |-> 0, err |-> Panic("index out of range")]
    ELSE Dot2First(TwoProduct(xs[1], ys[1]), xs, ys)

\* Dot2Err: the bound eb from dot, e and n = float64(len(x))
Dot2ErrDelta(n) == DivF(MulF(n, eps), SubF(One, MulF(MulF(2 * One, n), eps)))
Dot2ErrAlpha(dot, e, n) ==
    AddF(MulF(eps, AbsF(dot)),
         AddF(MulF(Dot2ErrDelta(n), e), DivF(MulF(3 * One, eta), eps)))
Dot2ErrEnd(dot, e, n) ==
    [r |-> dot, eb |-> DivF(Dot2ErrAlpha(dot, e, n), SubF(One, MulF(2 * One, eps))),
     err |-> NoErr]

\* Dot2Err: the loop at element i with the running p (pp), s and e;
\* Dot2ErrStep takes hr = TwoProduct(x[i], y[i]), Dot2ErrSum also
\* pq = TwoSum(p, h), Dot2ErrAdd also tt = q + r
RECURSIVE Dot2ErrFrom(_, _, _, _, _, _)
Dot2ErrAdd(pq, tt, s, e, xs, ys, i) ==
    Dot2ErrFrom(pq[1], AddF(s, tt), AddF(e, AbsF(tt)), xs, ys, i + 1)
Dot2ErrSum(hr, pq, s, e, xs, ys, i) ==
    Dot2ErrAdd(pq, AddF(pq[2], hr[2]), s, e, xs, ys, i)
Dot2ErrStep(hr, pp, s, e, xs, ys, i) ==
    Dot2ErrSum(hr, TwoSum(pp, hr[1]), s, e, xs, ys, i)
Dot2ErrFrom(pp, s, e, xs, ys, i) ==
    IF i > Len(xs) THEN Dot2ErrEnd(AddF(pp, s), e, FromInt(Len(xs)))
    ELSE IF i > Len(ys) THEN [r |-> 0, eb |-> 0, err |-> Panic("index out of range")]
    ELSE Dot2ErrStep(TwoProduct(xs[i], ys[i]), pp, s, e, xs, ys, i)
Dot2ErrFirst(ps, xs, ys) == Dot2ErrFrom(ps[1], ps[2], AbsF(ps[2]), xs, ys, 2)
Dot2Err(xs, ys) ==
    IF Len(xs) = 0 \/ Len(ys) = 0
    THEN [r |-> 0, eb |-> 0, err |-> Panic("index out of range")]
    ELSE Dot2ErrFirst(TwoProduct(xs[1], ys[1]), xs, ys)

\* DotK: the loop at element i with the running p (pp) and the slice r;
\* DotKStep takes hr = TwoProduct(x[i], y[i]), DotKSet also pq = TwoSum(p, h)
RECURSIVE DotKFrom(_, _, _, _, _, _)
DotKEnd(o) == [r |-> o.r, err |-> NoErr]
DotKSet(hr, pq, r, xs, ys, k, i) ==
    DotKFrom(pq[1], [r EXCEPT ![i] = hr[2], ![Len(xs) + i - 1] = pq[2]],
             xs, ys, k, i + 1)
DotKStep(hr, pp, r, xs, ys, k, i) == DotKSet(hr, TwoSum(pp, hr[1]), r, xs, ys, k, i)
DotKFrom(pp, r, xs, ys, k, i) ==
    IF i > Len(xs) THEN DotKEnd(SumK([r EXCEPT ![2 * Len(xs)] = pp], k - 1))
    ELSE IF i > Len(ys) THEN [r |-> 0, err |-> Panic("index out of range")]
    ELSE DotKStep(TwoProduct(xs[i], ys[i]), pp, r, xs, ys, k, i)
DotKFirst(ps, xs, ys, k) ==
    DotKFrom(ps[1], [j \in 1 .. 2 * Len(xs) |-> IF j = 1 THEN ps[2] ELSE 0],
             xs, ys, k, 2)
DotK(xs, ys, k) ==
    IF Len(xs) = 0 \/ Len(ys) = 0
    THEN [r |-> 0, err |-> Panic("index out of range")]
    ELSE DotKFirst(TwoProduct(xs[1], ys[1]), xs, ys, k)

\* the argument f of Cond and CondSum, applied to the contents q of a slice;
\* SumK stands for the closure func(p) { return SumK(p, k) }
ApplySum(fn, k, q) ==
    CASE fn = "Sum" -> [r |-> Sum(q), p |-> q, err |-> NoErr]
      [] fn = "Sum2" -> [r |-> Sum2(q), p |-> q, err |-> NoErr]
      [] fn = "SumK" -> SumK(q, k)
      [] fn = "AccSum" -> AccSum(q)

\* the argument f of CondDot
ApplyDot(fn, xs, ys) ==
    CASE fn = "Dot" -> Dot(xs, ys)
      [] fn = "Dot2" -> Dot2(xs, ys)

\* mutant: the new slice shares the array of s
sliceOf(h, s) == [h |-> h, c |-> s]
\* c := append([]float64{}, s...): a new array holding the elements of s
appendCopy(h, s) == [h |-> Append(h, h[s]), c |-> Len(h) + 1]

\* for i, x := range s { c[i] = math.Abs(x) }, at element i
RECURSIVE absFill(_, _, _, _)
absFill(h, c, s, i) ==
    IF i > Len(h[s]) THEN h
    ELSE absFill([h EXCEPT ![c][i] = AbsF(h[s][i])], c, s, i + 1)

\* CondSum(f, s) on heap h, in the steps of its body: m is the heap and the
\* new slice c after the copy, o1 and o2 the outcomes of the two calls of f,
\* h2 the heap when f is called again; arg2 is what that call is given
condSumEnd(o2, h2, c, absSum) ==
    [r |-> DivF(o2.r, absSum), h |-> [h2 EXCEPT ![c] = o2.p],
     arg2 |-> h2[c], err |-> o2.err]
condSumAgain(fn, k, h2, c, absSum) ==
    condSumEnd(ApplySum(fn, k, h2[c]), h2, c, absSum)
condSumRefill(fn, k, o1, h, c, s) ==
    IF o1.err # NoErr
    THEN [r |-> 0, h |-> [h EXCEPT ![c] = o1.p], arg2 |-> <<>>, err |-> o1.err]
    ELSE condSumAgain(fn, k, absFill([h EXCEPT ![c] = o1.p], c, s, 1), c,
                      AbsF(o1.r))
condSumCopied(fn, k, m, s) ==
    condSumRefill(fn, k, ApplySum(fn, k, m.h[m.c]), m.h, m.c, s)
CondSum(fn, k, h, s) == condSumCopied(fn, k, appendCopy(h, s), s)

\* Cond(p) of src/accsum.go: the same steps with AccSum for f
Cond(h, s) == CondSum("AccSum", 0, h, s)

\* for i, xi := range x { cx[i] = math.Abs(xi); cy[i] = math.Abs(y[i]) }
RECURSIVE absFill2(_, _, _, _, _, _)
absFillY(h1, cx, cy, xs, ys, i) ==
    absFill2([h1 EXCEPT ![cy][i] = AbsF(h1[ys][i])], cx, cy, xs, ys, i + 1)
absFill2(h, cx, cy, xs, ys, i) ==
    IF i > Len(h[xs]) THEN [h |-> h, err |-> NoErr]
    ELSE IF i > Len(h[ys]) THEN [h |-> [h EXCEPT ![cx][i] = AbsF(h[xs][i])],
                                 err |-> Panic("index out of range")]
    ELSE absFillY([h EXCEPT ![cx][i] = AbsF(h[xs][i])], cx, cy, xs, ys, i)

\* CondDot(f, x, y) on heap h, in the steps of its body: mx and my are the
\* heap and the new slice after each copy, o1 and o2 the outcomes of the two
\* calls of f, fl the heap after the refill
condDotEnd(o2, h2, cx, cy, absDot) ==
    [r |-> DivF(MulF(2 * One, o2.r), absDot), h |-> h2,
     arg2 |-> <<h2[cx], h2[cy]>>, err |-> o2.err]
condDotAgain(fn, fl, cx, cy, absDot) ==
    IF fl.err # NoErr THEN [r |-> 0, h |-> fl.h, arg2 |-> <<>>, err |-> fl.err]
    ELSE condDotEnd(ApplyDot(fn, fl.h[cx], fl.h[cy]), fl.h, cx, cy, absDot)
condDotRefill(fn, o1, h, cx, cy, xs, ys) ==
    IF o1.err # NoErr THEN [r |-> 0, h |-> h, arg2 |-> <<>>, err |-> o1.err]
    ELSE condDotAgain(fn, absFill2(h, cx, cy, xs, ys, 1), cx, cy, AbsF(o1.r))
condDotCopied(fn, cx, my, xs, ys) ==
    condDotRefill(fn, ApplyDot(fn, my.h[cx], my.h[my.c]), my.h, cx, my.c, xs, ys)
condDotCopiedX(fn, mx, xs, ys) ==
    condDotCopied(fn, mx.c, appendCopy(mx.h, ys), xs, ys)
CondDot(fn, h, xs, ys) == condDotCopiedX(fn, appendCopy(h, xs), xs, ys)

---------------------------------------------------------------------------
(* The calls of the error-free transformations: Init draws the arguments,  *)
(* each action is one call.                                                *)

\* the binade of 1.0, every significand
OneBinade == { m * 2^(Bias - P + 1) : m \in 2^(P - 1) .. 2^P - 1 }

\* of every binade the smallest, the next and the largest significand
EdgeFloats ==
    { m * 2^e : m \in {2^(P - 1), 2^(P - 1) + 1, 2^P - 1}, e \in 0 .. 2 * EMax - 1 }

\* the binade below the largest, every significand
NearTop == { m * 2^(2 * EMax - 2) : m \in 2^(P - 1) .. 2^P - 1 }

EftNonNeg == {0, eta, minPos - 1} \cup OneBinade \cup EdgeFloats \cup NearTop
EftVals == EftNonNeg \cup { -v : v \in EftNonNeg }

NoSeq == <<>>

\* no transform3 is running; nothing is returned yet
NoFrame ==
    [rho |-> 0, mu |-> 0, sigma |-> 0, t |-> 0, tau |-> 0, tau1 |-> 0,
     tau2 |-> 0, k |-> 0, sigmas |-> <<>>]
NoLocals == pc = "" /\ frame = NoFrame
NoOthers == sign = FALSE /\ resK = NoSeq /\ eb = 0

InitEFT ==
    /\ op = "init"
    /\ a \in EftVals
    /\ b \in EftVals
    /\ x = 0
    /\ y = 0
    /\ p = NoSeq /\ p0 = NoSeq /\ yv = NoSeq /\ yv0 = NoSeq
    /\ K = 0
    /\ f = ""
    /\ res = 0
    /\ err = NoErr
    /\ NoLocals /\ NoOthers

EftFrame == UNCHANGED <<a, b, p, p0, yv, yv0, K, f, res, err, locals, others>>

CallTwoSum ==
    /\ op = "init"
    /\ op' = "TwoSum"
    /\ x' = TwoSum(a, b)[1]
    /\ y' = TwoSum(a, b)[2]
    /\ EftFrame

CallFastTwoSum ==
    /\ op = "init"
    /\ op' = "FastTwoSum"
    /\ x' = FastTwoSum(a, b)[1]
    /\ y' = FastTwoSum(a, b)[2]
    /\ EftFrame

CallSplit ==
    /\ op = "init"
    /\ op' = "split"
    /\ x' = split(a)[1]
    /\ y' = split(a)[2]
    /\ EftFrame

CallTwoProduct ==
    /\ op = "init"
    /\ op' = "TwoProduct"
    /\ x' = TwoProduct(a, b)[1]
    /\ y' = TwoProduct(a, b)[2]
    /\ EftFrame

CallNextPowerTwo ==
    /\ op = "init"
    /\ op' = "nextPowerTwo"
    /\ x' = nextPowerTwo(a)
    /\ UNCHANGED y
    /\ EftFrame

NextEFT ==
    \/ CallTwoSum \/ CallFastTwoSum \/ CallSplit \/ CallTwoProduct
    \/ CallNextPowerTwo

SpecEFT == InitEFT /\ [][NextEFT]_vars

---------------------------------------------------------------------------
(* The calls of the summation functions: Init draws the slice p, each      *)
(* action is one call on it; p0 keeps what p held before the call.         *)

MaxLen == 3
MaxK == 3

\* a value that is not a float, large against One
Big == (2^P + 2) * One

SeqVals == {0, One, NegF(One), 3 * One, eps, NegF(eps), Big, NegF(Big), 5 * u}

\* the slices of at most n elements of V
SeqsUpTo(V, n) == UNION {[1 .. k -> V] : k \in 0 .. n}

\* slices near the top of the range and with non-finite elements
EdgeVals == {MaxFloat, NegF(MaxFloat), PosInf, NaN, One}
EdgeSeqs == SeqsUpTo(EdgeVals, 2) \ {<<>>}

\* slices about as long as PrecSum admits
LongVals == {One, NegF(eps), NaN, PosInf}
LongSeqs == {[i \in 1 .. n |-> v] : n \in (nMax - 1) .. (nMax + 1), v \in LongVals}

SumInputs == SeqsUpTo(SeqVals, MaxLen) \cup EdgeSeqs \cup LongSeqs

InitSum ==
    /\ op = "init"
    /\ p \in SumInputs
    /\ p0 = p
    /\ a = 0 /\ b = 0 /\ x = 0 /\ y = 0
    /\ yv = NoSeq /\ yv0 = NoSeq
    /\ K = 0
    /\ f = ""
    /\ res = 0
    /\ err = NoErr
    /\ NoLocals /\ NoOthers

SumFrame == UNCHANGED <<a, b, x, y, p0, yv, yv0, f, pc, eb>>

\* the mu that the scan of the call leaves: transform3 and PrecSum scan a
\* slice that is not empty (PrecSum: and not over the limit)
Scanned(name, q) ==
    IF \/ Len(q) = 0
       \/ name \notin {"AccSum", "AccSignBit", "AccSumK", "PrecSum"}
       \/ (name = "PrecSum" /\ Len(q) > nMax)
    THEN 0 ELSE muOf(q)

\* what every call of a summation function does to the state
Called(name, k, o) ==
    /\ op = "init"
    /\ op' = name
    /\ K' = k
    /\ p' = o.p
    /\ err' = o.err
    /\ frame' = [frame EXCEPT !.mu = Scanned(name, p),
                               !.k = IF name = "AccSumK" THEN o.n ELSE 0,
                               !.sigmas = IF name = "PrecSum"
                                          THEN precSigmas(p, k) ELSE <<>>]
    /\ SumFrame

\* the call returns o: its value, the slice as it leaves it, and how it ended
Returns(name, k, o) ==
    /\ Called(name, k, o)
    /\ res' = o.r
    /\ UNCHANGED <<sign, resK>>

\* the same for AccSignBit, whose value is a bool, one of o.rs
ReturnsBool(name, o) ==
    /\ Called(name, 0, o)
    /\ sign' \in o.rs
    /\ UNCHANGED <<res, resK>>

\* the same for AccSumK, whose value is a slice
ReturnsSlice(name, k, o) ==
    /\ Called(name, k, o)
    /\ resK' = o.r
    /\ UNCHANGED <<res, sign>>

CallSum == Returns("Sum", 0, [r |-> Sum(p), p |-> p, err |-> NoErr])

CallSum2 == Returns("Sum2", 0, [r |-> Sum2(p), p |-> p, err |-> NoErr])

CallSumK == \E k \in 1 .. MaxK : Returns("SumK", k, SumK(p, k))

CallSumKVert == \E k \in 1 .. MaxK : Returns("SumKVert", k, SumKVert(p, k))

CallAccSum == Returns("AccSum", 0, AccSum(p))

CallPrecSum == \E k \in 1 .. MaxK : Returns("PrecSum", k, PrecSum(p, k))

CallAccSignBit == ReturnsBool("AccSignBit", AccSignBit(p))

CallAccSumK == \E k \in 1 .. MaxK : ReturnsSlice("AccSumK", k, AccSumK(p, k))

NextSum ==
    \/ CallSum \/ CallSum2 \/ CallSumK \/ CallSumKVert \/ CallAccSum \/ CallPrecSum
    \/ CallAccSignBit \/ CallAccSumK

SpecSum == InitSum /\ [][NextSum]_vars

---------------------------------------------------------------------------
(* The calls of extractSlice: Init draws the extraction unit sigma (a) and *)
(* the slice p.                                                            *)

ExtLen == 3

\* every power of two of the format, and one value that is none
PowersOfTwo == { 2^k : k \in 0 .. 2 * EMax + P - 2 }
SigmaVals == PowersOfTwo \cup {3 * One}

\* elements from the smallest to large ones, with significands of one bit and
\* of P bits
ExtVals ==
    {0, eta, -3 * eta, One, NegF(One), 43 * 2^(Bias - P + 1),
     -53 * 2^(Bias - P - 1), 2^(2 * EMax + P - 4), -(2^P - 1) * 2^(2 * EMax - 5)}

InitExtract ==
    /\ op = "init"
    /\ a \in SigmaVals
    /\ p \in SeqsUpTo(ExtVals, ExtLen)
    /\ p0 = p
    /\ b = 0 /\ x = 0 /\ y = 0
    /\ yv = NoSeq /\ yv0 = NoSeq
    /\ K = 0
    /\ f = ""
    /\ res = 0
    /\ err = NoErr
    /\ NoLocals /\ NoOthers

\* extractSlice(a, p) returns o.tau and leaves o.p
ExtractReturns(o) ==
    /\ op = "init"
    /\ op' = "extractSlice"
    /\ res' = o.tau
    /\ p' = o.p
    /\ UNCHANGED <<a, b, x, y, p0, yv, yv0, K, f, err, locals, others>>

CallExtractSlice == ExtractReturns(extractSlice(a, p))

NextExtract == CallExtractSlice

SpecExtract == InitExtract /\ [][NextExtract]_vars

---------------------------------------------------------------------------
(* transform3 statement by statement.  pc is the position in the current   *)
(* activation ("enter": at its first statement, "loop": at the head of the *)
(* loop body, "test": after tau1 = t + tau, "done": returned to the        *)
(* caller) and frame holds its parameters, locals and results.  Init draws *)
(* the slice p, the argument rho (a) and the criterion Phi (f).            *)

RhoVals == {0, One}

InitTransform ==
    /\ op = "init"
    /\ p \in SumInputs
    /\ p0 = p
    /\ a \in RhoVals
    /\ f \in {"Sum", "Sign"}
    /\ b = 0 /\ x = 0 /\ y = 0
    /\ yv = NoSeq /\ yv0 = NoSeq
    /\ K = 0
    /\ res = 0
    /\ err = NoErr
    /\ NoLocals /\ NoOthers

TransformFrame == UNCHANGED <<a, b, x, y, p0, yv, yv0, K, f, res, err, others>>

\* the call transform3(p, a, f)
CallTransform3 ==
    /\ op = "init"
    /\ op' = "transform3"
    /\ pc' = "enter"
    /\ frame' = [NoFrame EXCEPT !.rho = a]
    /\ UNCHANGED p
    /\ TransformFrame

\* return (t1, t2)
Return(t1, t2) ==
    /\ pc' = "done"
    /\ frame' = [frame EXCEPT !.tau1 = t1, !.tau2 = t2]

\* from "Ms := ..." to the head of the loop
EnterSigma(mu, Ms, sigma) ==
    IF IsInf(sigma)
    THEN /\ pc' = "done"
         /\ frame' = [frame EXCEPT !.mu = mu, !.sigma = sigma,
                                    !.tau1 = sigma, !.tau2 = sigma]
    ELSE /\ pc' = "loop"
         /\ frame' = [frame EXCEPT !.mu = mu, !.sigma = sigma,
                                    !.t = frame.rho]
EnterMu(mu, Ms) ==
    IF EqF(mu, 0)
    THEN pc' = "done" /\ frame' = [frame EXCEPT !.mu = mu]
    ELSE EnterSigma(mu, Ms, MulF(Ms, nextPowerTwo(mu)))

\* the statements before the loop
StepEnter ==
    /\ pc = "enter"
    /\ IF Len(p) = 0 THEN Return(0, 0)
       ELSE EnterMu(muOf(p), nextPowerTwo(FromInt(Len(p) + 2)))
    /\ UNCHANGED <<op, p>>
    /\ TransformFrame

\* tau := extractSlice(sigma, p); tau1 = t + tau
Extracted(e) ==
    /\ pc' = "test"
    /\ p' = e.p
    /\ frame' = [frame EXCEPT !.tau = e.tau, !.tau1 = AddF(frame.t, e.tau)]
StepExtract ==
    /\ pc = "loop"
    /\ Extracted(extractSlice(frame.sigma, p))
    /\ UNCHANGED op
    /\ TransformFrame

\* the rest of the loop body: the exit test, the restart on t == 0 as a new
\* activation with rho = 0, and the decrease of sigma
Tested(Ms) ==
    IF \/ GeF(AbsF(frame.tau1), MulF(PhiOf(f, Ms), frame.sigma))
       \/ LeF(frame.sigma, minPos)
    THEN Return(frame.tau1, AddF(SubF(frame.t, frame.tau1), frame.tau))
    ELSE IF EqF(frame.tau1, 0)
    THEN pc' = "enter" /\ frame' = NoFrame
    ELSE /\ pc' = "loop"
         /\ frame' = [frame EXCEPT !.t = frame.tau1,
                                    !.sigma = MulF(frame.sigma, MulF(Ms, u))]
StepTest ==
    /\ pc = "test"
    /\ Tested(nextPowerTwo(FromInt(Len(p) + 2)))
    /\ UNCHANGED <<op, p>>
    /\ TransformFrame

StepTransform == StepEnter \/ StepExtract \/ StepTest

NextTransform == CallTransform3 \/ StepTransform

SpecTransform == InitTransform /\ [][NextTransform]_vars

\* Every statement of NextTransform moves pc, and one of them is enabled at
\* every position but "done".  The processor keeps executing the call: until
\* it has returned, it moves on to another position.
Positions == {"", "enter", "loop", "test", "done"}
Advance == pc # "done" /\ pc' \in Positions \ {pc}

SpecTransformRuns == SpecTransform /\ WF_pc(Advance)

---------------------------------------------------------------------------
(* The users of an extraction unit: transform3 statement by statement and  *)
(* the calls of PrecSum, on the same arguments.                            *)

NextSigma == NextTransform \/ CallPrecSum

SpecSigma == InitTransform /\ [][NextSigma]_vars

---------------------------------------------------------------------------
(* The calls of the dot products: Init draws the slices x (p) and y (yv),  *)
(* each action is one call.                                                *)

DotLen == 2

\* 2 - 2^(1-P), the largest float below 2: its square is not a float
BelowTwo == (2^P - 1) * 2^(Bias - P + 1)

DotVals == {0, One, NegF(One), BelowTwo, NegF(3 * eps)}

DotInputs == SeqsUpTo(DotVals, DotLen)

InitDot ==
    /\ op = "init"
    /\ p \in DotInputs
    /\ p0 = p
    /\ yv \in DotInputs
    /\ yv0 = yv
    /\ a = 0 /\ b = 0 /\ x = 0 /\ y = 0
    /\ K = 0
    /\ f = ""
    /\ res = 0
    /\ err = NoErr
    /\ NoLocals /\ NoOthers

\* the call returns o; no dot product writes to x or y
DotReturns(name, k, o) ==
    /\ op = "init"
    /\ op' = name
    /\ K' = k
    /\ res' = o.r
    /\ err' = o.err
    /\ UNCHANGED <<a, b, x, y, p, p0, yv, yv0, f, locals, sign, resK>>

CallDot == DotReturns("Dot", 0, Dot(p, yv)) /\ UNCHANGED eb

CallDot2 == DotReturns("Dot2", 0, Dot2(p, yv)) /\ UNCHANGED eb

\* Dot2Err returns o.eb as well
ReturnsBound(o) == DotReturns("Dot2Err", 0, o) /\ eb' = o.eb

CallDot2Err == ReturnsBound(Dot2Err(p, yv))

CallDotK == \E k \in 1 .. MaxK : DotReturns("DotK", k, DotK(p, yv, k)) /\ UNCHANGED eb

NextDot == CallDot \/ CallDot2 \/ CallDot2Err \/ CallDotK

SpecDot == InitDot /\ [][NextDot]_vars

---------------------------------------------------------------------------
(* The calls of the condition numbers: Init draws the slices p and yv of   *)
(* the caller, each action is one call; p0 and yv0 keep what they held.    *)

CondLen == 2

CondVals == {One, NegF(One), eps, NegF(Big)}

CondInputs == SeqsUpTo(CondVals, CondLen)

InitCond ==
    /\ op = "init"
    /\ p \in CondInputs
    /\ p0 = p
    /\ yv \in CondInputs
    /\ yv0 = yv
    /\ a = 0 /\ b = 0 /\ x = 0 /\ y = 0
    /\ K = 0
    /\ f = ""
    /\ res = 0
    /\ err = NoErr
    /\ NoLocals /\ NoOthers

\* the call on the caller's heap <<p, yv>> returns o
CondReturns(name, fn, k, o) ==
    /\ op = "init"
    /\ op' = name
    /\ f' = fn
    /\ K' = k
    /\ res' = o.r
    /\ err' = o.err
    /\ p' = o.h[1]
    /\ yv' = o.h[2]
    /\ UNCHANGED <<a, b, x, y, p0, yv0, locals, others>>

CallCond == CondReturns("Cond", "AccSum", 0, Cond(<<p, yv>>, 1))

CallCondSum ==
    \/ \E fn \in {"Sum", "Sum2", "AccSum"} :
           CondReturns("CondSum", fn, 0, CondSum(fn, 0, <<p, yv>>, 1))
    \/ \E k \in 2 .. MaxK :
           CondReturns("CondSum", "SumK", k, CondSum("SumK", k, <<p, yv>>, 1))

CallCondDot ==
    \E fn \in {"Dot", "Dot2"} :
        CondReturns("CondDot", fn, 0, CondDot(fn, <<p, yv>>, 1, 2))

NextCond == CallCond \/ CallCondSum \/ CallCondDot

SpecCond == InitCond /\ [][NextCond]_vars

---------------------------------------------------------------------------
(* Claims about the error-free transformations.                            *)

\* x is a float nearest to the exact value x + y
IsRounding(xx, yy) ==
    /\ IsFinite(xx) /\ IsFinite(yy)
    /\ IsFloat(xx) /\ IsFloat(yy)
    /\ 2 * AbsInt(yy) <= 2^UlpExp(xx)

ProductExact(v, w) == v # 0 /\ w # 0 => Expo(v) + Expo(w) >= Bias
ExactProduct(v, w) ==
    IF v = 0 \/ w = 0 THEN 0
    ELSE SignOf(v) * SignOf(w) * Mant(v) * Mant(w) * 2^(Expo(v) + Expo(w) - Bias)

\* the operating range of TwoProduct: none of its products overflows (the
\* two of split, a * b and the four partial products; the largest of these is
\* a1 * b1) or underflows
InProductRange(v, w) ==
    /\ IsFinite(MulF(splitFactor, v))
    /\ IsFinite(MulF(splitFactor, w))
    /\ IsFinite(MulF(v, w))
    /\ IsFinite(MulF(split(v)[1], split(w)[1]))
    /\ ProductExact(v, w)

\* C3: for all finite a, b within the operating range, TwoProduct(a, b) returns
\* (x, y) with x the rounded product a * b and x + y = a * b exactly.
C3_TwoProductExact ==
    (op = "TwoProduct" /\ InProductRange(a, b))
        => /\ IsRounding(x, y)
           /\ x + y = ExactProduct(a, b)

\* C3 witness: a product that was rounded
C3_Witness ==
    op = "TwoProduct" /\ InProductRange(a, b) /\ y # 0

\* the stored significand of a finite float has its k low-order bits zero
LowBitsZero(v, k) ==
    (AbsInt(v) \div 2^UlpExp(v)) % 2^k = 0

\* 26 of 53: the low-order bits split leaves zero
LowZeroBits == P \div 2

\* the operating range of split: the factor does not overflow, and the last
\* place of a is a normal number
InSplitRange(v) ==
    /\ IsFinite(MulF(splitFactor, v))
    /\ (v = 0 \/ 2^UlpExp(v) >= minPos)

\* C4: for all finite a of either sign within the operating range, split(a)
\* returns (hi, lo) with the floating-point sum hi + lo = a exactly and the
\* low-order 26 significand bits of hi and of lo zero.
C4_SplitExact ==
    /\ (op = "split" /\ IsFinite(MulF(splitFactor, a)))
            => (IsFinite(x) /\ IsFinite(y) /\ AddF(x, y) = a /\ x + y = a)
    /\ (op = "split" /\ InSplitRange(a))
            => (LowBitsZero(x, LowZeroBits) /\ LowBitsZero(y, LowZeroBits))

\* C4 witness: a negative a split into two non-zero parts
C4_Witness ==
    op = "split" /\ InSplitRange(a) /\ a < 0 /\ x # 0 /\ y # 0


---------------------------------------------------------------------------
(* Claims about the summation functions.                                   *)

AllFinite(q) == \A i \in 1 .. Len(q) : IsFinite(q[i])

\* the exact sum of finite elements, and the exact sum of their magnitudes
RECURSIVE ExactSum(_)
ExactSum(q) == IF Len(q) = 0 THEN 0 ELSE q[1] + ExactSum(Tail(q))
RECURSIVE ExactAbsSum(_)
ExactAbsSum(q) == IF Len(q) = 0 THEN 0 ELSE AbsInt(q[1]) + ExactAbsSum(Tail(q))

\* s is a finite value of the format
Representable(s) == AbsInt(s) < PosInf /\ IsFloat(s)

\* the representable neighbours of a real s that is not representable
FloatBelow(s) ==
    IF s >= PosInf THEN MaxFloat
    ELSE IF s <= NegInf THEN NegInf
    ELSE LET g == 2^UlpExp(AbsInt(s))
         IN  (s \div g) * g
FloatAbove(s) == NegF(FloatBelow(-s))

\* r is a faithful rounding of the real s
Faithful(r, s) ==
    IF Representable(s) THEN r = s ELSE r \in {FloatBelow(s), FloatAbove(s)}

\* C5: for every slice p of finite values, AccSum(p) returns a faithful
\* rounding of the exact sum of the values p held before the call: the sum
\* itself if it is representable, else one of its two neighbours.
C5_AccSumFaithful ==
    (op = "AccSum" /\ AllFinite(p0))
        => (err = NoErr /\ Faithful(res, ExactSum(p0)))

IntegerValued(q) == \A i \in 1 .. Len(q) : IsFinite(q[i]) /\ q[i] % One = 0

\* C6: for every slice p of integer-valued elements whose exact sum is
\* representable, AccSum(p) returns exactly that sum.
C6_AccSumExactOnIntegers ==
    (op = "AccSum" /\ IntegerValued(p0) /\ Representable(ExactSum(p0)))
        => (err = NoErr /\ res = ExactSum(p0))

\* C7: for every non-empty slice p of finite values with non-zero exact sum
\* and every K >= 1, |PrecSum(p, K) - sum| / |sum| <= 2^(-P*K) * Cond(p) with
\* Cond(p) = (sum of |p[i]|) / |sum|, and PrecSum(p, K) is not 0.
C7_PrecSumErrorBound ==
    (/\ op = "PrecSum" /\ K >= 1
     /\ Len(p0) >= 1 /\ Len(p0) <= nMax
     /\ AllFinite(p0) /\ ExactSum(p0) # 0)
        => /\ err = NoErr
           /\ res # 0
           /\ AbsInt(res - ExactSum(p0)) <= ExactAbsSum(p0) \div 2^(P * K)

\* C8: PrecSum(p, K) panics with the message naming len(p) and the limit
\* exactly when len(p) > nMax, and then whatever the elements of p are: no
\* element is read and nothing is computed from one.
C8_PrecSumLengthLimit ==
    (op = "PrecSum") =>
        /\ (err = LimitPanic(Len(p0))) <=> (Len(p0) > nMax)
        /\ (Len(p0) > nMax) =>
               /\ p = p0
               /\ \A v \in LongVals \cup SeqVals :
                      PrecSum([i \in 1 .. Len(p0) |-> v], K).err = err

C8_Witness ==
    /\ op = "PrecSum"
    /\ Len(p0) = nMax + 1
    /\ IsNaN(p0[1])
    /\ err = <<"len(p) exceeds limit", Len(p0), nMax>>

\* C10: for every slice p and every K >= 1, SumKVert(p, K) returns the value
\* SumK returns on a copy of p.
C10_SumKVertAsSumK ==
    (op = "SumKVert" /\ K >= 1)
        => (err = NoErr /\ res = SumK(p0, K).r)

---------------------------------------------------------------------------
(* Claims about the condition numbers.                                     *)

AbsSeq(q) == [i \in 1 .. Len(q) |-> AbsF(q[i])]

\* what the call recorded in the state gave to the second application of f
SecondArg ==
    CASE op = "Cond" -> Cond(<<p0, yv0>>, 1).arg2
      [] op = "CondSum" -> CondSum(f, K, <<p0, yv0>>, 1).arg2
      [] op = "CondDot" -> CondDot(f, <<p0, yv0>>, 1, 2).arg2

\* C9: Cond, CondSum and CondDot leave every element of their input slices
\* unchanged for every f, destructive ones included, and the second
\* application of f is given the magnitudes of the original elements (for
\* CondDot: of slices of one length, as Dot requires).
C9_CondLeavesInputs ==
    (op \in {"Cond", "CondSum", "CondDot"}) =>
        /\ p = p0
        /\ yv = yv0
        /\ (op \in {"Cond", "CondSum"} /\ SecondArg # <<>>)
               => SecondArg = AbsSeq(p0)
        /\ (op = "CondDot" /\ Len(p0) = Len(yv0) /\ SecondArg # <<>>)
               => SecondArg = <<AbsSeq(p0), AbsSeq(yv0)>>

C9_Witness ==
    /\ op = "CondSum"
    /\ f \in {"AccSum", "SumK"}
    /\ err = NoErr
    /\ ApplySum(f, K, p0).p # p0
    /\ p = p0

---------------------------------------------------------------------------
(* Claims about what the summation functions do to p, about empty and     *)
(* all-zero inputs, and about how calls end.                               *)

\* the rounded running sum q[1] + ... + q[i], added in order
RECURSIVE RunningSum(_, _)
RunningSum(q, i) == IF i = 1 THEN q[1] ELSE AddF(RunningSum(q, i - 1), q[i])

\* one vecSum pass, element by element: the error of each running sum, and
\* the last running sum at the end
VecSumPass(q) ==
    [i \in 1 .. Len(q) |->
        IF i = Len(q) THEN RunningSum(q, i)
        ELSE TwoSum(RunningSum(q, i), q[i + 1])[2]]

RECURSIVE Passes(_, _)
Passes(q, n) == IF n = 0 THEN q ELSE Passes(VecSumPass(q), n - 1)

\* C11: SumKVert(p, K) leaves every element of p as it was, for every p and
\* K; SumK(p, K) with K >= 2 and len(p) >= 2 leaves in p the result of K-1
\* vecSum passes.
C11_SumKVertKeepsP ==
    /\ (op = "SumKVert") => p = p0
    /\ (op = "SumK" /\ K >= 2 /\ Len(p0) >= 2) => p = Passes(p0, K - 1)

\* SumKVert returned with p intact where SumK, on the same slice, changes it
C11_Witness ==
    /\ op = "SumKVert"
    /\ K >= 2
    /\ err = NoErr
    /\ p = p0
    /\ SumK(p0, K).p # p0
    /\ SumK(p0, K).p = Passes(p0, K - 1)

AllZero(q) == \A i \in 1 .. Len(q) : q[i] = 0

\* the functions that take K, and the dot products
TakesK == {"SumK", "SumKVert", "PrecSum", "AccSumK", "DotK"}
DotProducts == {"Dot2", "Dot2Err", "DotK"}

\* C12: on a zero-length input and on an input whose elements are all zero,
\* AccSum, PrecSum, Sum2, SumK, SumKVert and (x and y of one length, both
\* all zero) Dot2, Dot2Err, DotK return exactly zero.
C12_ZeroInputs ==
    (/\ op \in {"AccSum", "PrecSum", "Sum2", "SumK", "SumKVert"} \cup DotProducts
     /\ AllZero(p0)
     /\ (op = "PrecSum") => Len(p0) <= nMax
     /\ (op \in DotProducts) => (Len(yv0) = Len(p0) /\ AllZero(yv0)))
        => (err = NoErr /\ res = 0)

\* C13: with finite elements, K >= 1 and, for a dot product, x and y of one
\* length, every call of AccSum, AccSumK, AccSignBit, PrecSum, Sum2, SumK,
\* SumKVert, Dot2, Dot2Err and DotK returns, or PrecSum reports that len(p)
\* exceeds the limit; it ends in no other way.
C13_NoOtherFailure ==
    (/\ op \in {"AccSum", "AccSumK", "AccSignBit", "PrecSum", "Sum2", "SumK",
                "SumKVert"} \cup DotProducts
     /\ AllFinite(p0)
     /\ (op \in TakesK) => K >= 1
     /\ (op \in DotProducts) => (Len(yv0) = Len(p0) /\ AllFinite(yv0)))
        => \/ err = NoErr
           \/ op = "PrecSum" /\ Len(p0) > nMax /\ err = LimitPanic(Len(p0))

\* C14: for every slice p of finite values, AccSignBit(p) returns true
\* exactly when the exact sum of the values p held is negative.
C14_AccSignBitIsSign ==
    (op = "AccSignBit" /\ AllFinite(p0))
        => (err = NoErr /\ sign = (ExactSum(p0) < 0))

\* C15: for x and y of one length, zero included, Dot2Err(x, y) returns as dot
\* the value Dot2(x, y) returns.
C15_Dot2ErrAsDot2 ==
    (op = "Dot2Err" /\ Len(p0) = Len(yv0))
        => (err = NoErr /\ Dot2(p0, yv0).err = NoErr /\ res = Dot2(p0, yv0).r)

\* the largest magnitude of the elements of a slice that is not empty
RECURSIVE MaxAbs(_)
MaxAbs(q) == IF Len(q) = 1 THEN AbsInt(q[1]) ELSE Max(AbsInt(q[1]), MaxAbs(Tail(q)))

\* C16: in transform3 (here: called by AccSum) and in PrecSum the mu the scan
\* leaves is the largest |p[i]|, also when that element is negative; so the
\* return taken when mu == 0 is taken only if every element of p is zero.
C16_MuIsMaxMagnitude ==
    (/\ op \in {"AccSum", "PrecSum"}
     /\ Len(p0) >= 1
     /\ (op = "PrecSum") => Len(p0) <= nMax
     /\ AllFinite(p0))
        => /\ frame.mu = MaxAbs(p0)
           /\ (frame.mu = 0) => AllZero(p0)

---------------------------------------------------------------------------
(* Claims about the extraction engine.                                     *)

\* the high part of v relative to s, and what is left of v
HighPart(s, v) == SubF(AddF(s, v), s)
Remainder(s, v) == SubF(v, HighPart(s, v))

\* the float64 sum, from 0 and in order, of the first n high parts (hi) or
\* remainders of the elements of q relative to s
RECURSIVE PartSum(_, _, _, _)
PartSum(s, q, n, hi) ==
    IF n = 0 THEN 0
    ELSE AddF(PartSum(s, q, n - 1, hi),
              IF hi THEN HighPart(s, q[n]) ELSE Remainder(s, q[n]))

IsPowerOfTwo(v) == v > 0 /\ IsFinite(v) /\ v = 2^(BitLen(v) - 1)

\* C19: for sigma a power of two and p with len(p) + 2 <= Ms and every
\* |p[i]| <= sigma / Ms (the weakest such Ms is len(p) + 2), extractSlice
\* conserves the sum: tau plus the exact sum of the elements it leaves is the
\* exact sum of the elements p held, and len(p) is as before.
C19_ExtractSliceConserves ==
    (/\ op = "extractSlice"
     /\ IsPowerOfTwo(a)
     /\ \A i \in 1 .. Len(p0) : AbsInt(p0[i]) * (Len(p0) + 2) <= a)
        => /\ Len(p) = Len(p0)
           /\ IsFinite(res)
           /\ AllFinite(p)
           /\ res + ExactSum(p) = ExactSum(p0)

\* the sum is conserved with both parts present: tau is not zero and an
\* element keeps a remainder that is not zero
C19_Witness ==
    /\ op = "extractSlice"
    /\ IsPowerOfTwo(a)
    /\ Len(p0) = ExtLen
    /\ \A i \in 1 .. Len(p0) : AbsInt(p0[i]) * (Len(p0) + 2) <= a
    /\ res # 0
    /\ \E i \in 1 .. Len(p0) : p[i] # 0 /\ p[i] # p0[i]
    /\ res + ExactSum(p) = ExactSum(p0)

---------------------------------------------------------------------------
(* Claims about transform.                                                 *)

\* C17: transform terminates for every finite input p, elements near the
\* largest finite magnitude included.
C17_TransformTerminates == AllFinite(p0) => <>(pc = "done")

\* C20: after transform(p) returns (tau1, tau2), tau1 + tau2 + the exact sum
\* of the elements p then holds is the exact sum of the elements p held at
\* the call.
C20_TransformConserves ==
    (op = "transform3" /\ pc = "done" /\ f = "Sum" /\ a = 0 /\ AllFinite(p0))
        => /\ IsFinite(frame.tau1) /\ IsFinite(frame.tau2) /\ AllFinite(p)
           /\ frame.tau1 + frame.tau2 + ExactSum(p) = ExactSum(p0)

---------------------------------------------------------------------------
(* Claims about AccSumK, the extraction unit and nextPowerTwo.             *)

\* C21: AccSumK(p, K) returns exactly K values, and runs all K passes unless
\* the leading term of the last pass it ran has underflowed, i.e. has a
\* magnitude of at most minPos; a leading term of normal magnitude, of either
\* sign, does not stop the iteration.
C21_AccSumKStopsOnUnderflow ==
    (op = "AccSumK" /\ err = NoErr /\ AllFinite(p0)) =>
        /\ Len(resK) = K
        /\ \/ frame.k = K
           \/ /\ frame.k \in 1 .. K - 1
              /\ LeF(AbsF(resK[frame.k]), minPos)

\* C24: for every finite v, nextPowerTwo(v) is the smallest power of two that
\* is not less than |v|; so a power of two is returned unchanged, v and -v
\* give the same, and nextPowerTwo(0) is 0.
C24_NextPowerTwoIsSmallest ==
    (op = "nextPowerTwo" /\ IsFinite(a)) =>
        IF a = 0 THEN x = 0
        ELSE /\ IsPowerOfTwo(x)
             /\ x >= AbsInt(a)
             /\ x < 2 * AbsInt(a)
             /\ IsPowerOfTwo(AbsInt(a)) => x = AbsInt(a)
             /\ x = nextPowerTwo(NegF(a))

\* C22: every extraction unit passed to extractSlice or extractScalar is a
\* power of two: the sigma that transform3 has at the head of its loop, which
\* is Ms * nextPowerTwo(mu) at first and sigma * phi after every round, and
\* every entry of PrecSum's slice sigma.
C22_SigmaIsPowerOfTwo ==
    AllFinite(p0) =>
        /\ (op = "transform3" /\ pc = "loop") => IsPowerOfTwo(frame.sigma)
        /\ (op = "PrecSum") =>
               \A i \in 1 .. Len(frame.sigmas) : IsPowerOfTwo(frame.sigmas[i])

\* C23: when sigma = Ms * nextPowerTwo(mu) is not a finite number, transform
\* returns at once with an infinite (tau1, tau2): it does not enter the loop
\* and leaves p as it was.
C23_NonFiniteSigmaReturns ==
    (/\ op = "transform3"
     /\ ~IsFinite(frame.sigma)
     /\ \A i \in 1 .. Len(p0) : ~IsNaN(p0[i]))
        => /\ pc = "done"
           /\ IsInf(frame.tau1) /\ IsInf(frame.tau2)
           /\ p = p0

====
